---- MODULE Spec2Model ----
(***************************************************************************)
(* Model of app.py: generate_invoice (the PDF invoice renderer) and the    *)
(* on-screen invoice preview.                                              *)
(*                                                                         *)
(* Money.  The program computes with binary floating point.  Amounts are   *)
(* held here as integers counting 1/800 of a currency unit.  Unit prices   *)
(* are multiples of 1/8 and tax percentages multiples of 25, so every      *)
(* product, sum and the division by 100 is a dyadic rational that a double *)
(* holds exactly: on these inputs the integer arithmetic below is the      *)
(* arithmetic of the program, and f"{x:.2f}" rounds the exact value to the *)
(* nearest cent, ties to even.                                             *)
(***************************************************************************)
EXTENDS Integers, Sequences, FiniteSets, TLC

\* ---------------------------------------------------------------- bounds
MaxItems == 3
MaxLayoutItems == 16
TicksPerDay == 2

\* ------------------------------------------------------ program constants
top_margin == 600
bottom_margin == 50
NumCols == 4

\* 1/800 units in one cent and in one eighth of a currency unit
UnitsPerCent == 2 * 2 * 2
UnitsPerEighth == 4 * 25

\* ---------------------------------------------------------------- inputs
\* items are tuples (item_name, qty, price); nothing in generate_invoice
\* restricts them, so a negative quantity and a negative price are among them
ItemValues ==
    {<<"A", 1, 1 * UnitsPerEighth>>,
     <<"B", 2, 3 * UnitsPerEighth>>,
     <<"C", 1, 0>>,
     <<"D", -1, 1 * UnitsPerEighth>>,
     <<"E", 1, -1 * UnitsPerEighth>>}
TaxPercents == {-25, 0, 50, 100}
Currencies == {"$"}

SeqsUpTo(S, n) == UNION {[1..k -> S] : k \in 0..n}

\* the clock: instants FirstInstant..LastInstant; midnight lies between them
FirstInstant == TicksPerDay - 1
LastInstant == TicksPerDay
DateOf(c) == c \div TicksPerDay
TimeOf(c) == c % TicksPerDay

VARIABLES
    items, currency, tax_percentage, logo_path,   \* arguments
    clock,                                        \* datetime.now()
    pc,                                           \* position in the program
    canvas,                                       \* drawing calls issued, in order
    invoice_date, purchase_time,                  \* the two strings drawn
    data, total_amount, tax_amount, grand_total,  \* locals of generate_invoice
    style, table_y,
    result,                                       \* what generate_invoice returned
    preview                                       \* what the preview computed

vars == <<items, currency, tax_percentage, logo_path, clock, pc, canvas,
          invoice_date, purchase_time, data, total_amount, tax_amount,
          grand_total, style, table_y, result, preview>>

args == <<items, currency, tax_percentage, logo_path>>
stamps == <<invoice_date, purchase_time>>
locals == <<data, total_amount, tax_amount, grand_total, style, table_y>>

\* ------------------------------------------------------------ formatting
\* n / d rounded to the nearest integer, ties to the even neighbour (n >= 0)
RoundHalfEven(n, d) ==
    LET q == n \div d
        r == n % d
    IN  IF 2 * r < d THEN q
        ELSE IF 2 * r > d THEN q + 1
        ELSE IF q % 2 = 0 THEN q ELSE q + 1

\* f"{x:.2f}": the amount as a whole number of cents
Fmt2(x) ==
    IF x < 0 THEN -RoundHalfEven(-x, UnitsPerCent)
    ELSE RoundHalfEven(x, UnitsPerCent)

\* table cells: a label, a currency symbol (or ""), a number
Cell(s, cur, n) == [s |-> s, cur |-> cur, n |-> n]
Text(s) == Cell(s, "", 0)

HeaderRow(cur) ==
    <<Text("Item"), Text("Quantity"), Cell("Unit Price", cur, 0),
      Cell("Total Price", cur, 0)>>

\* the line total without the quantity
LineTotalUnit(qty, price) == price

\* qty * price
LineTotal(qty, price) == qty * price

ItemRow(item) ==
    <<Text(item[1]), Cell("str", "", item[2]), Cell(".2f", "", Fmt2(item[3])),
      Cell(".2f", "", Fmt2(LineTotal(item[2], item[3])))>>

SubtotalRow(cur, total) == <<Text(""), Text(""), Text("Subtotal:"), Cell(".2f", cur, Fmt2(total))>>
TaxRow(cur, pct, tax) == <<Text(""), Text(""), Cell("Tax %", "", pct), Cell(".2f", cur, Fmt2(tax))>>
GrandTotalRow(cur, grand) == <<Text(""), Text(""), Text("Grand Total:"), Cell(".2f", cur, Fmt2(grand))>>

\* (total_amount * tax_percentage) / 100
TaxOf(total, pct) == (total * pct) \div 100

\* total_amount = total_price
AccumulateLast(total, total_price) == total_price

\* the subtotal summed from the line totals as displayed
AccumulateRounded(total, total_price) == total + Fmt2(total_price) * UnitsPerCent

\* total_amount += total_price
Accumulate(total, total_price) == total + total_price

\* total_amount + tax_amount
GrandOf(total, tax) == total + tax

SummaryRows(cur, pct, total, tax, grand) ==
    <<SubtotalRow(cur, total), TaxRow(cur, pct, tax), GrandTotalRow(cur, grand)>>

\* ------------------------------------------------------------ table style
\* a negative index of a style command counts from the end
Norm(k, n) == IF k < 0 THEN k + n ELSE k

\* the cells <<column, row>> of the command range (sc, sr), (ec, er)
CellRange(sc, sr, ec, er, nrows) ==
    {<<c, r>> : c \in Norm(sc, NumCols)..Norm(ec, NumCols),
                r \in Norm(sr, nrows)..Norm(er, nrows)}

\* the last row of the light background command
ItemBackgroundEnd == -3

TableStyle(nrows) ==
    [header_background |-> CellRange(0, 0, -1, 0, nrows),
     header_textcolor  |-> CellRange(0, 0, -1, 0, nrows),
     align_center      |-> CellRange(0, 0, -1, -1, nrows),
     header_bold       |-> CellRange(0, 0, -1, 0, nrows),
     header_padding    |-> CellRange(0, 0, -1, 0, nrows),
     item_background   |-> CellRange(0, 1, -1, ItemBackgroundEnd, nrows),
     grid              |-> CellRange(0, 0, -1, -1, nrows),
     line_below        |-> CellRange(0, 0, -1, 0, nrows),
     line_above_a      |-> CellRange(0, -3, -1, -3, nrows),
     line_above_b      |-> CellRange(0, -1, -1, -1, nrows)]

\* the y at which the table is drawn
TableY(n) == top_margin - 250 - n * 20

\* ---------------------------------------------------------------- preview
\* preview_items["Qty"] * preview_items["Price"], element by element
TotalColumn(its) == [k \in 1..Len(its) |-> its[k][2] * its[k][3]]

RECURSIVE ColumnSum(_)
ColumnSum(col) ==
    IF col = <<>> THEN 0 ELSE ColumnSum(SubSeq(col, 1, Len(col) - 1)) + col[Len(col)]

PreviewOf(its, pct) ==
    LET subtotal == ColumnSum(TotalColumn(its))
        tax == (subtotal * pct) \div 100
    IN  [computed |-> TRUE, totals |-> TotalColumn(its), subtotal |-> subtotal,
         tax_amount |-> tax, grand_total |-> subtotal + tax,
         shown |-> <<Fmt2(subtotal), Fmt2(tax), Fmt2(subtotal + tax)>>]

\* ----------------------------------------------------------------- state
NoStyle == [k \in DOMAIN TableStyle(0) |-> {}]
NoPreview == [computed |-> FALSE, totals |-> <<>>, subtotal |-> 0,
              tax_amount |-> 0, grand_total |-> 0, shown |-> <<>>]

InitWith(itemLists) ==
    /\ items \in itemLists
    /\ currency \in Currencies
    /\ tax_percentage \in TaxPercents
    /\ logo_path \in BOOLEAN
    /\ clock = FirstInstant
    /\ pc = "border"
    /\ canvas = <<>>
    /\ invoice_date = -1
    /\ purchase_time = -1
    /\ data = <<>>
    /\ total_amount = 0
    /\ tax_amount = 0
    /\ grand_total = 0
    /\ style = NoStyle
    /\ table_y = 0
    /\ result = "none"
    /\ preview = NoPreview

Init == InitWith(SeqsUpTo(ItemValues, MaxItems))

Draw(op) == canvas' = Append(canvas, op)

\* time passes while the program runs
Tick ==
    /\ pc # "end"
    /\ clock < LastInstant
    /\ clock' = clock + 1
    /\ UNCHANGED <<args, pc, canvas, stamps, locals, result, preview>>

DrawBorder ==
    /\ pc = "border"
    /\ Draw("rect")
    /\ pc' = "logo"
    /\ UNCHANGED <<args, clock, stamps, locals, result, preview>>

\* the image drawn whether or not a logo was given
DrawLogoAlways ==
    /\ pc = "logo"
    /\ Draw("drawImage")
    /\ pc' = "title"
    /\ UNCHANGED <<args, clock, stamps, locals, result, preview>>

\* if logo_path: pdf.drawImage(...)
DrawLogo ==
    /\ pc = "logo"
    /\ IF logo_path THEN Draw("drawImage") ELSE UNCHANGED canvas
    /\ pc' = "title"
    /\ UNCHANGED <<args, clock, stamps, locals, result, preview>>

DrawTitle ==
    /\ pc = "title"
    /\ Draw("title")
    /\ pc' = "customer"
    /\ UNCHANGED <<args, clock, stamps, locals, result, preview>>

DrawCustomer ==
    /\ pc = "customer"
    /\ Draw("customer")
    /\ pc' = "email"
    /\ UNCHANGED <<args, clock, stamps, locals, result, preview>>

DrawEmail ==
    /\ pc = "email"
    /\ Draw("email")
    /\ pc' = "date"
    /\ UNCHANGED <<args, clock, stamps, locals, result, preview>>

\* datetime.now().strftime('%Y-%m-%d')
DrawInvoiceDate ==
    /\ pc = "date"
    /\ invoice_date' = DateOf(clock)
    /\ Draw("date")
    /\ pc' = "time"
    /\ UNCHANGED <<args, clock, purchase_time, locals, result, preview>>

\* datetime.now().strftime('%H:%M:%S')
DrawPurchaseTime ==
    /\ pc = "time"
    /\ purchase_time' = TimeOf(clock)
    /\ Draw("time")
    /\ pc' = "header"
    /\ UNCHANGED <<args, clock, invoice_date, locals, result, preview>>

TableHeader ==
    /\ pc = "header"
    /\ data' = <<HeaderRow(currency)>>
    /\ total_amount' = 0
    /\ pc' = "items"
    /\ UNCHANGED <<args, clock, canvas, stamps, tax_amount, grand_total,
                   style, table_y, result, preview>>

\* the item's row put right under the header instead of at the end
AddItemFirst ==
    /\ pc = "items"
    /\ Len(data) - 1 < Len(items)
    /\ LET item == items[Len(data)]
       IN  /\ data' = <<data[1], ItemRow(item)>> \o Tail(data)
           /\ total_amount' = Accumulate(total_amount, LineTotal(item[2], item[3]))
    /\ UNCHANGED <<args, clock, pc, canvas, stamps, tax_amount, grand_total,
                   style, table_y, result, preview>>

\* one pass of "for item in items"; Len(data) - 1 items are done
AddItem ==
    /\ pc = "items"
    /\ Len(data) - 1 < Len(items)
    /\ LET item == items[Len(data)]
       IN  /\ data' = Append(data, ItemRow(item))
           /\ total_amount' = Accumulate(total_amount, LineTotal(item[2], item[3]))
    /\ UNCHANGED <<args, clock, pc, canvas, stamps, tax_amount, grand_total,
                   style, table_y, result, preview>>

CalcTotals ==
    /\ pc = "items"
    /\ Len(data) - 1 = Len(items)
    /\ tax_amount' = TaxOf(total_amount, tax_percentage)
    /\ grand_total' = GrandOf(total_amount, TaxOf(total_amount, tax_percentage))
    /\ pc' = "summary"
    /\ UNCHANGED <<args, clock, canvas, stamps, data, total_amount,
                   style, table_y, result, preview>>

AddSummaryRows ==
    /\ pc = "summary"
    /\ data' = data \o SummaryRows(currency, tax_percentage, total_amount,
                                   tax_amount, grand_total)
    /\ pc' = "style"
    /\ UNCHANGED <<args, clock, canvas, stamps, total_amount, tax_amount,
                   grand_total, style, table_y, result, preview>>

CreateTable ==
    /\ pc = "style"
    /\ style' = TableStyle(Len(data))
    /\ pc' = "table"
    /\ UNCHANGED <<args, clock, canvas, stamps, data, total_amount, tax_amount,
                   grand_total, table_y, result, preview>>

DrawTable ==
    /\ pc = "table"
    /\ table_y' = TableY(Len(items))
    /\ Draw("table")
    /\ pc' = "thanks"
    /\ UNCHANGED <<args, clock, stamps, data, total_amount, tax_amount,
                   grand_total, style, result, preview>>

FooterThanks ==
    /\ pc = "thanks"
    /\ Draw("thanks")
    /\ pc' = "terms"
    /\ UNCHANGED <<args, clock, stamps, locals, result, preview>>

FooterTerms ==
    /\ pc = "terms"
    /\ Draw("terms")
    /\ pc' = "save"
    /\ UNCHANGED <<args, clock, stamps, locals, result, preview>>

\* pdf.save(); buffer.seek(0); return buffer
Save ==
    /\ pc = "save"
    /\ Draw("save")
    /\ result' = "document"
    /\ pc' = "preview"
    /\ UNCHANGED <<args, clock, stamps, locals, preview>>

\* the "Invoice Preview" block of the script, on the same inputs
Preview ==
    /\ pc = "preview"
    /\ preview' = PreviewOf(items, tax_percentage)
    /\ pc' = "end"
    /\ UNCHANGED <<args, clock, canvas, stamps, locals, result>>

Next ==
    \/ Tick
    \/ DrawBorder
    \/ DrawLogo
    \/ DrawTitle
    \/ DrawCustomer
    \/ DrawEmail
    \/ DrawInvoiceDate
    \/ DrawPurchaseTime
    \/ TableHeader
    \/ AddItem
    \/ CalcTotals
    \/ AddSummaryRows
    \/ CreateTable
    \/ DrawTable
    \/ FooterThanks
    \/ FooterTerms
    \/ Save
    \/ Preview

Spec == Init /\ [][Next]_vars

\* the same program, called with long lists of one cheap item
LayoutItem == <<"A", 1, 1 * UnitsPerEighth>>
InitLayout == InitWith({[k \in 1..n |-> LayoutItem] : n \in 0..MaxLayoutItems})
SpecLayout == InitLayout /\ [][Next]_vars

\* ================================================================ claims
NumItems == Len(items)
TotalsDone == pc \in {"summary", "style", "table", "thanks", "terms", "save", "preview", "end"}
RowsDone == pc \in {"style", "table", "thanks", "terms", "save", "preview", "end"}
StyleDone == pc \in {"table", "thanks", "terms", "save", "preview", "end"}
TimeDrawn == pc \notin {"border", "logo", "title", "customer", "email", "date", "time"}

\* the sum of quantity * unit price over a list of items, first item first
RECURSIVE SumLines(_)
SumLines(its) ==
    IF its = <<>> THEN 0 ELSE its[1][2] * its[1][3] + SumLines(Tail(its))

IsPrefix(s, t) == Len(s) <= Len(t) /\ s = SubSeq(t, 1, Len(s))

ValidInput ==
    /\ \A k \in 1..NumItems : items[k][2] >= 1 /\ items[k][3] >= 0
    /\ tax_percentage >= 0
    /\ tax_percentage <= 100

HasNegative ==
    \/ \E k \in 1..NumItems : items[k][2] < 0 \/ items[k][3] < 0
    \/ tax_percentage < 0

RowCarries(row, item) ==
    /\ row[1].s = item[1]
    /\ row[2].n = item[2]
    /\ row[3].n = Fmt2(item[3])
    /\ row[4].n = Fmt2(item[2] * item[3])

\* C1: the table rows are one header row, then one row per item in input
\* order (row i+1 carries item i's name, quantity, unit price and line total),
\* then exactly the three rows Subtotal, Tax (<percent>%), Grand Total in that
\* order; len(items) + 4 rows in all.
RowsInOrder ==
    /\ data # <<>> => data[1] = HeaderRow(currency)
    /\ \A k \in 1..NumItems : k + 1 <= Len(data) => RowCarries(data[k + 1], items[k])
    /\ ~RowsDone => Len(data) <= NumItems + 1
    /\ RowsDone =>
        /\ Len(data) = NumItems + 4
        /\ data[NumItems + 2][3] = Text("Subtotal:")
        /\ data[NumItems + 3][3] = Cell("Tax %", "", tax_percentage)
        /\ data[NumItems + 4][3] = Text("Grand Total:")

RowsInOrderWitness ==
    /\ RowsDone
    /\ NumItems >= 2
    /\ items[1] # items[2]

\* C2: with every quantity >= 1, every unit price >= 0 and the tax percentage
\* in [0,100], subtotal = sum of quantity_i * unitPrice_i, taxAmount =
\* subtotal * taxPercent / 100, grandTotal = subtotal + taxAmount, and all
\* three are non-negative.
TotalsFormula ==
    (TotalsDone /\ ValidInput) =>
        /\ total_amount = SumLines(items)
        /\ tax_amount * 100 = total_amount * tax_percentage
        /\ grand_total = total_amount + tax_amount
        /\ total_amount >= 0
        /\ tax_amount >= 0
        /\ grand_total >= 0

TotalsFormulaWitness ==
    /\ TotalsDone
    /\ ValidInput
    /\ NumItems >= 2
    /\ tax_amount > 0
    /\ grand_total > total_amount

\* C3: a call with an empty item list returns no document.
EmptyListRejected == NumItems = 0 => result # "document"

\* C4: a call with a negative quantity, unit price or tax percentage is
\* rejected before any drawing operation is issued, and returns no document.
NegativeInputRejected == HasNegative => (canvas = <<>> /\ result # "document")

\* C5: the date and the time drawn by one call are the date and the time of
\* one and the same clock instant of that call.
OneClockInstant ==
    TimeDrawn =>
        \E c \in FirstInstant..clock :
            invoice_date = DateOf(c) /\ purchase_time = TimeOf(c)

\* C6 as claimed: border, logo if present, title with date and time, then
\* customer name and email, table, the two footer lines, finish last.
ClaimedOrder ==
    <<"rect">> \o (IF logo_path THEN <<"drawImage">> ELSE <<>>) \o
    <<"title", "date", "time", "customer", "email", "table", "thanks", "terms", "save">>

ClaimedDrawOrder == IsPrefix(canvas, ClaimedOrder)

CodeOrder ==
    <<"rect">> \o (IF logo_path THEN <<"drawImage">> ELSE <<>>) \o
    <<"title", "customer", "email", "date", "time", "table", "thanks", "terms", "save">>

\* C6 as amended: border first, logo if present, title, customer name and
\* email, then the date and the time, table, the two footer lines, finish
\* last; nothing is drawn after finish.
DrawOrder ==
    /\ IsPrefix(canvas, CodeOrder)
    /\ result = "document" <=> canvas = CodeOrder
    /\ pc \in {"preview", "end"} => result = "document"

DrawOrderWitness ==
    /\ pc = "end"
    /\ logo_path
    /\ canvas = CodeOrder

\* C7: every document returned has its table's bottom edge,
\* top_margin - 250 - 20 * len(items), at or above the bottom margin.
TableAboveBottomMargin == result = "document" => table_y >= bottom_margin

RowsCells(rows) == {<<c, r>> : c \in 0..(NumCols - 1), r \in rows}

\* C8: for n >= 1 items the header background and bold font cover row 0 only,
\* the light background covers exactly rows 1..n, one line is ruled above row
\* n+1 and one above row n+3, grid and centring cover every cell of rows 0..n+3.
StyleRangesAsIntended ==
    (StyleDone /\ NumItems >= 1) =>
        /\ style.header_background = RowsCells({0})
        /\ style.header_bold = RowsCells({0})
        /\ style.item_background = RowsCells(1..NumItems)
        /\ style.line_above_a = RowsCells({NumItems + 1})
        /\ style.line_above_b = RowsCells({NumItems + 3})
        /\ style.grid = RowsCells(0..(NumItems + 3))
        /\ style.align_center = RowsCells(0..(NumItems + 3))

RECURSIVE SumShownLines(_)
SumShownLines(its) ==
    IF its = <<>> THEN 0 ELSE Fmt2(its[1][2] * its[1][3]) + SumShownLines(Tail(its))

\* C9: the displayed subtotal is the rounding of the unrounded sum of the line
\* totals, the displayed tax the rounding of taxPercent/100 times the unrounded
\* subtotal, the displayed grand total the rounding of unrounded subtotal plus
\* unrounded tax, all by the one rounding of the 2-decimal format.
RoundedAtDisplayOnly ==
    RowsDone =>
        LET sum == SumLines(items)
            tax == (sum * tax_percentage) \div 100
        IN  /\ (sum * tax_percentage) % 100 = 0
            /\ data[NumItems + 2][4].n = Fmt2(sum)
            /\ data[NumItems + 3][4].n = Fmt2(tax)
            /\ data[NumItems + 4][4].n = Fmt2(sum + tax)

RoundedAtDisplayOnlyWitness ==
    /\ RowsDone
    /\ data[NumItems + 2][4].n # SumShownLines(items)
    /\ data[NumItems + 4][4].n # data[NumItems + 2][4].n + data[NumItems + 3][4].n

====
